---------------------------- MODULE Spec2Model ----------------------------
(***************************************************************************)
(* PKCS#7 SignedData wrapper over OpenSSL: WrapPkcs7Data,                  *)
(* X509PopCertificate, Pkcs7GetSigners, Pkcs7GetCertificatesList,          *)
(* Pkcs7Verify and Pkcs7GetSignature.  One behaviour of the model is one   *)
(* call of one of these functions, taken step by step.                     *)
(*                                                                         *)
(* The OpenSSL decoder, the X.509 objects and malloc are the environment:  *)
(* their results are chosen nondeterministically where the code reads them.*)
(***************************************************************************)
EXTENDS Integers, Sequences, FiniteSets

(***************************************************************************)
(* UINTN values.  A length may exceed INT_MAX, the largest integer the     *)
(* model checker holds, so a UINTN is kept as two base-65536 digits:       *)
(* [hi, lo] stands for hi * 65536 + lo.  The low digit is exactly what a   *)
(* (UINT16) cast keeps.  Lengths are lengths of buffers that exist, so the *)
(* 64-bit wrap of UINTN is never reached.                                  *)
(***************************************************************************)
U(n) == [hi |-> n \div 65536, lo |-> n % 65536]

UAdd(a, k) == [hi |-> a.hi + ((a.lo + k) \div 65536), lo |-> (a.lo + k) % 65536]

UGt(a, b) == a.hi > b.hi \/ (a.hi = b.hi /\ a.lo > b.lo)

ULt(a, b) == UGt(b, a)

\* (UINT16)(a - k) for a small k: the subtraction only touches the low digit.
UINT16Sub(a, k) == (a.lo + 65536 - k) % 65536

INT_MAX == [hi |-> 32767, lo |-> 65535]

Min(a, b) == IF a < b THEN a ELSE b

(***************************************************************************)
(* Bounds of the model.                                                    *)
(***************************************************************************)
\* Largest number of certificates embedded in one SignedData.
MaxCerts == 3

(***************************************************************************)
(* Byte buffers.  A buffer's bytes are head[1..] followed by the byte fill *)
(* repeated; len is its length.  For a caller's buffer shorter than its    *)
(* head, the rest of head is the memory that lies behind the buffer.       *)
(***************************************************************************)
mOidValue == <<42, 134, 72, 134, 247, 13, 1, 7, 2>>

ByteAt(data, i) == IF i < Len(data.head) THEN data.head[i + 1] ELSE data.fill

InBounds(data, i) == ULt(U(i), data.len)

\* The first P7Length bytes of a buffer, as far as they are held in head.
Take(head, P7Length) ==
    IF P7Length.hi > 0 \/ P7Length.lo >= Len(head)
    THEN head
    ELSE SubSeq(head, 1, P7Length.lo)

\* Pointers: a caller's buffer, a malloc'ed block (id) or NULL, and an offset.
NULL == [kind |-> "null", id |-> 0, off |-> 0]

HeapPtr(n) == [kind |-> "heap", id |-> n, off |-> 0]

CallerPtr == [kind |-> "caller", id |-> 0, off |-> 0]

(***************************************************************************)
(* WrapPkcs7Data.                                                          *)
(***************************************************************************)
\* The bytes the detection compares P7Data[4..16] with.
WrappedPattern == <<6, 9>> \o mOidValue \o <<160, 130>>

\* How many of P7Data[4..16] match before the first mismatch; && and
\* CompareMem stop at the first mismatch.
MatchLen(data) ==
    CHOOSE m \in 0..Len(WrappedPattern) :
        /\ \A j \in 1..m : ByteAt(data, 3 + j) = WrappedPattern[j]
        /\ \/ m = Len(WrappedPattern)
           \/ ByteAt(data, 3 + m + 1) # WrappedPattern[m + 1]

IsWrapped(data) == MatchLen(data) = Len(WrappedPattern)

\* The indices of P7Data the detection reads.
DetectReads(data) ==
    {3 + j : j \in 1..Min(MatchLen(data) + 1, Len(WrappedPattern))}

\* WrapHeader writing 0x81 for 0x82 in Part5.
WrapHeaderShortTag(WrapDataSize, P7Length) ==
    <<48, 130,
      UINT16Sub(WrapDataSize, 4) \div 256, UINT16Sub(WrapDataSize, 4) % 256,
      6, 9>> \o mOidValue \o
    <<160, 129, P7Length.lo \div 256, P7Length.lo % 256>>

\* The 19-byte header put before a bare SignedData.
WrapHeader(WrapDataSize, P7Length) ==
    <<48, 130,
      UINT16Sub(WrapDataSize, 4) \div 256, UINT16Sub(WrapDataSize, 4) % 256,
      6, 9>> \o mOidValue \o
    <<160, 130, P7Length.lo \div 256, P7Length.lo % 256>>

\* newPtr is what malloc returns: a fresh block, or NULL.
WrapPkcs7Data(P7Data, P7Length, data, newPtr) ==
    IF IsWrapped(data)
    THEN [ret |-> TRUE, WrapFlag |-> TRUE, WrapData |-> P7Data,
          WrapDataSize |-> P7Length, content |-> data, malloc |-> FALSE]
    ELSE LET WrapDataSize == UAdd(P7Length, 19)
         IN  IF newPtr = NULL
             THEN [ret |-> FALSE, WrapFlag |-> FALSE, WrapData |-> NULL,
                   WrapDataSize |-> WrapDataSize, content |-> data,
                   malloc |-> TRUE]
             ELSE [ret |-> TRUE, WrapFlag |-> FALSE, WrapData |-> newPtr,
                   WrapDataSize |-> WrapDataSize,
                   content |->
                       [len |-> WrapDataSize,
                        head |-> WrapHeader(WrapDataSize, P7Length)
                                 \o Take(data.head, P7Length),
                        fill |-> data.fill],
                   malloc |-> TRUE]


(***************************************************************************)
(* Certificates.  A certificate is known by its subject name, its issuer   *)
(* name and its DER encoding.  Root is self-signed; Cross has the subject  *)
(* name of Intermediate; Stray and Cross issue each other.                 *)
(***************************************************************************)
Certs == {"Leaf", "Intermediate", "Root", "Stray", "Cross"}

Subject(c) ==
    CASE c = "Leaf" -> "L"
      [] c = "Intermediate" -> "I"
      [] c = "Root" -> "R"
      [] c = "Stray" -> "S"
      [] c = "Cross" -> "I"

IssuerName(c) ==
    CASE c = "Leaf" -> "I"
      [] c = "Intermediate" -> "R"
      [] c = "Root" -> "R"
      [] c = "Stray" -> "I"
      [] c = "Cross" -> "S"

DER(c) ==
    CASE c = "Leaf" -> <<76>>
      [] c = "Intermediate" -> <<73, 73>>
      [] c = "Root" -> <<82, 82, 82>>
      [] c = "Stray" -> <<83, 83>>
      [] c = "Cross" -> <<67, 67, 67, 67>>

\* A STACK_OF(X509) is a sequence, its top the last element; a NULL stack
\* pointer is NullStack.
NullStack == <<"NULL">>

\* The value an uninitialised byte or an output the callee never wrote holds.
Unset == 0 - 1

(***************************************************************************)
(* What d2i_PKCS7 can return.  A SignedData holds its embedded             *)
(* certificates (certs, in SET order), one entry per SignerInfo (sinfo:    *)
(* the index in certs of that signer's certificate) and the encrypted      *)
(* digest of the first SignerInfo (enc, <<>> when the field is absent).    *)
(***************************************************************************)
CertSeqs ==
    UNION {{s \in [1..k -> Certs] : \A i, j \in 1..k : i # j => s[i] # s[j]}
           : k \in 0..MaxCerts}

\* The elements of a set of indices, in increasing order.
Ascending(S) ==
    CHOOSE s \in [1..Cardinality(S) -> S] :
        \A i, j \in 1..Cardinality(S) : i < j => s[i] < s[j]

SignedDatas ==
    UNION {{[type |-> "signed", certs |-> cs, sinfo |-> Ascending(S),
             enc |-> <<170>>] : S \in SUBSET (1..Len(cs))}
           : cs \in CertSeqs}

NotSignedData == [type |-> "data", certs |-> <<>>, sinfo |-> <<>>, enc |-> <<>>]

NoPkcs7 == [type |-> "null", certs |-> <<>>, sinfo |-> <<>>, enc |-> <<>>]

\* The DER header d2i_PKCS7 reads first: SEQUENCE, long-form length in two
\* bytes.  The object ends consumed bytes after its start.
Consumed(envelope) == 4 + ByteAt(envelope, 2) * 256 + ByteAt(envelope, 3)

\* Whether the envelope can hold a complete ContentInfo at all: the header
\* is a two-byte-length SEQUENCE that fits in the buffer, and the buffer has
\* content beyond the bytes written out in head.
Decodable(envelope) ==
    /\ ULt(U(Len(envelope.head)), envelope.len)
    /\ ByteAt(envelope, 0) = 48
    /\ ByteAt(envelope, 1) = 130
    /\ ~ UGt(U(Consumed(envelope)), envelope.len)

(***************************************************************************)
(* X509PopCertificate.  env is what the allocator does inside it: "ok",    *)
(* "bio" (BIO_new or i2d_X509_bio fails) or "malloc" (the scratch buffer). *)
(***************************************************************************)
\* X509PopCertificate taking the bottom of the stack (sk_X509_shift).
X509ShiftCertificate(X509Stack, env) ==
    IF X509Stack = NullStack \/ Len(X509Stack) = 0
    THEN [Status |-> FALSE, Stack |-> X509Stack, popped |-> FALSE,
          X509Cert |-> "none", Cert |-> <<>>, CertSize |-> 0]
    ELSE IF env = "ok"
    THEN [Status |-> TRUE, Stack |-> Tail(X509Stack), popped |-> TRUE,
          X509Cert |-> Head(X509Stack),
          Cert |-> DER(Head(X509Stack)), CertSize |-> Len(DER(Head(X509Stack)))]
    ELSE [Status |-> FALSE, Stack |-> Tail(X509Stack), popped |-> TRUE,
          X509Cert |-> Head(X509Stack), Cert |-> <<>>, CertSize |-> 0]

X509PopCertificate(X509Stack, env) ==
    IF X509Stack = NullStack \/ Len(X509Stack) = 0
    THEN [Status |-> FALSE, Stack |-> X509Stack, popped |-> FALSE,
          X509Cert |-> "none", Cert |-> <<>>, CertSize |-> 0]
    ELSE LET X509Cert == X509Stack[Len(X509Stack)]
             rest == SubSeq(X509Stack, 1, Len(X509Stack) - 1)
         IN  IF env = "ok"
             THEN [Status |-> TRUE, Stack |-> rest, popped |-> TRUE,
                   X509Cert |-> X509Cert,
                   Cert |-> DER(X509Cert), CertSize |-> Len(DER(X509Cert))]
             ELSE [Status |-> FALSE, Stack |-> rest, popped |-> TRUE,
                   X509Cert |-> X509Cert, Cert |-> <<>>, CertSize |-> 0]

\* WriteUnaligned32 of a length: four bytes, least significant first.
WriteUnaligned32(n) ==
    <<n % 256, (n \div 256) % 256, (n \div 65536) % 256, (n \div 16777216) % 256>>

\* GrowCertBuf without the CopyMem from the old accumulator.
GrowCertBufNoCopy(old, OldSize, BufferSize, SingleCert) ==
    [i \in 1..BufferSize |->
        IF i <= OldSize
        THEN Unset
        ELSE IF i <= OldSize + 4
             THEN WriteUnaligned32(Len(SingleCert))[i - OldSize]
             ELSE SingleCert[i - OldSize - 4]]

\* The accumulator after one loop iteration: BufferSize bytes, the first
\* OldSize copied from the old accumulator (one unwritten byte when there
\* is none), then the length and the certificate.
GrowCertBuf(old, OldSize, BufferSize, SingleCert) ==
    [i \in 1..BufferSize |->
        IF i <= OldSize
        THEN IF i <= Len(old) THEN old[i] ELSE Unset
        ELSE IF i <= OldSize + 4
             THEN WriteUnaligned32(Len(SingleCert))[i - OldSize]
             ELSE SingleCert[i - OldSize - 4]]


(***************************************************************************)
(* Inputs of one call.                                                     *)
(***************************************************************************)
Ops == {"WrapPkcs7Data", "Pkcs7GetSigners", "Pkcs7GetCertificatesList",
        "Pkcs7Verify", "Pkcs7GetSignature"}

\* P7Length: shorter than the 17 bytes the detection reads, just long
\* enough, ordinary, too long for the 16-bit length fields, around INT_MAX.
Lengths ==
    {U(3), U(16), U(17), U(40), U(65521),
     [hi |-> 32767, lo |-> 65517], INT_MAX, UAdd(INT_MAX, 1)}

\* Lengths a direct caller of WrapPkcs7Data passes as well: the last one
\* that fits the 16-bit length fields.
WrapLengths == Lengths \cup {U(65520)}

\* The first 17 bytes at P7Data: a ContentInfo holding signedData, a bare
\* SignedData, and ContentInfos that miss the pattern in the last OID byte
\* or in the last byte compared.
Kinds == {"wrapped", "bare"}

WrapKinds == Kinds \cup {"otherOid", "otherTag"}

HeadOf(kind, P7Length) ==
    LET l == UINT16Sub(P7Length, 4)
        w == <<48, 130, l \div 256, l % 256, 6, 9>> \o mOidValue \o <<160, 130>>
    IN  CASE kind = "wrapped" -> w
          [] kind = "bare" ->
                <<48, 130, l \div 256, l % 256, 2, 1, 1, 49, 15, 48, 13, 6, 9,
                  96, 134, 72, 1>>
          [] kind = "otherOid" -> [w EXCEPT ![15] = 3]
          [] kind = "otherTag" -> [w EXCEPT ![17] = 128]

\* The arguments of a call.  badArg: a pointer argument the entry check
\* tests is NULL, or CertLength or DataLength of Pkcs7Verify exceeds
\* INT_MAX.  Signature and SignatureLength are the two OUT arguments of
\* Pkcs7GetSignature: NULL, or (Signature) pointing to a NULL buffer
\* pointer, or usable.
Arg(o, l, k, bad, sig, siglen) ==
    [op |-> o, P7Length |-> l,
     data |-> [len |-> l, head |-> HeadOf(k, l), fill |-> 0],
     badArg |-> bad, Signature |-> sig, SignatureLength |-> siglen]

Inputs ==
    {Arg("WrapPkcs7Data", l, k, FALSE, "buf", "ok")
     : l \in WrapLengths, k \in WrapKinds}
    \cup
    {Arg(o, l, k, FALSE, "buf", "ok")
     : o \in {"Pkcs7GetSigners", "Pkcs7GetCertificatesList", "Pkcs7Verify"},
       l \in Lengths, k \in Kinds}
    \cup
    {Arg(o, U(40), "bare", TRUE, "buf", "ok")
     : o \in {"Pkcs7GetSigners", "Pkcs7GetCertificatesList", "Pkcs7Verify",
              "Pkcs7GetSignature"}}
    \cup
    {Arg("Pkcs7GetSignature", l, k, FALSE, sig, siglen)
     : l \in Lengths, k \in Kinds, sig \in {"null", "nobuf", "buf"},
       siglen \in {"null", "ok"}}

(***************************************************************************)
(* State.                                                                  *)
(*   in       the arguments of the call                                    *)
(*   pc       where the call stands; "done" after it returned loc.Status,  *)
(*            "fault" when undefined behaviour stopped it                  *)
(*   loc      the local variables, under their names in the source         *)
(*   out      what the OUT parameters point to                             *)
(*   heap     the malloc'ed blocks' bytes, and the pointers passed to free *)
(*   wrapLog  the calls of WrapPkcs7Data made so far, with their results   *)
(*   hist     what happened: history kept for the properties               *)
(***************************************************************************)
VARIABLES in, pc, loc, out, heap, wrapLog, hist

vars == <<in, pc, loc, out, heap, wrapLog, hist>>

EmptyData == [len |-> U(0), head |-> <<>>, fill |-> 0]

\* The value an OUT pointer holds before the call writes it.
ENTRY == [kind |-> "entry", id |-> 0, off |-> 0]

Init ==
    /\ in \in Inputs
    /\ pc = "call"
    /\ loc = [Status |-> FALSE, Wrapped |-> FALSE, SignedData |-> NULL,
              SignedDataSize |-> U(0), Temp |-> NULL, envelope |-> EmptyData,
              Pkcs7 |-> NoPkcs7, Stack |-> NullStack, Signer |-> "none",
              CtxChain |-> NullStack, CtxUntrusted |-> NullStack,
              Cert |-> "none", Index |-> 0, CertBuf |-> NULL, OldBuf |-> NULL,
              BufferSize |-> 0, OldSize |-> 0, SingleCert |-> NULL]
    /\ out = [CertStack |-> ENTRY, StackLength |-> Unset,
              TrustedCert |-> ENTRY, CertLength |-> Unset,
              SignerChainCerts |-> ENTRY, ChainLength |-> Unset,
              UnchainCerts |-> ENTRY, UnchainLength |-> Unset,
              Signature |-> <<>>, SignatureLength |-> Unset]
    /\ heap = [mem |-> <<>>, freed |-> <<>>]
    /\ wrapLog = <<>>
    /\ hist = [oob |-> FALSE, decode |-> "none", sizeOver |-> FALSE,
               allocFail |-> FALSE, envFail |-> FALSE, lost |-> FALSE,
               popped |-> <<>>, popped2 |-> <<>>, trace |-> <<>>,
               verified |-> FALSE, failedAt |-> 0, nullWrite |-> FALSE]

\* malloc: a new block at the end of heap.mem, or NULL.
Malloc(h, ok, bytes) == IF ok THEN [h EXCEPT !.mem = Append(@, bytes)] ELSE h

NewPtr(h, ok) == IF ok THEN HeapPtr(Len(h.mem) + 1) ELSE NULL

Free(h, p) == IF p = NULL THEN h ELSE [h EXCEPT !.freed = Append(@, p)]

(***************************************************************************)
(* A direct call of WrapPkcs7Data, and a second call on what it returned.  *)
(***************************************************************************)
\* One call of WrapPkcs7Data from position `from`.  Reading behind the end
\* of the buffer is undefined: the call may stop there (goFault) or go on
\* with the bytes that lie behind the buffer.  next is the position after a
\* success, fail the one after a failure.
CallWrap(P7Data, data, ok, goFault, Status0, next, fail) ==
    LET r == WrapPkcs7Data(P7Data, data.len, data, NewPtr(heap, ok))
        oob == \E i \in DetectReads(data) : ~ InBounds(data, i)
    IN  /\ goFault => oob
        /\ hist' = [hist EXCEPT !.oob = @ \/ oob]
        /\ IF goFault
           THEN /\ pc' = "fault"
                /\ UNCHANGED <<loc, heap, wrapLog>>
           ELSE /\ wrapLog' = Append(wrapLog,
                                     [P7Data |-> P7Data, data |-> data, r |-> r])
                /\ heap' = Malloc(heap, r.malloc /\ r.ret, <<>>)
                /\ loc' = [loc EXCEPT !.Status = IF r.ret THEN Status0 ELSE FALSE,
                                      !.Wrapped = r.WrapFlag,
                                      !.SignedData = r.WrapData,
                                      !.SignedDataSize = r.WrapDataSize,
                                      !.envelope = r.content]
                /\ pc' = IF r.ret THEN next ELSE fail

Wrap_First ==
    /\ pc = "call" /\ in.op = "WrapPkcs7Data"
    /\ \E ok, goFault \in BOOLEAN :
           CallWrap(CallerPtr, in.data, ok, goFault, TRUE, "wrap_again", "done")
    /\ UNCHANGED <<in, out>>

Wrap_Again ==
    /\ pc = "wrap_again"
    /\ \E ok, goFault \in BOOLEAN :
           CallWrap(loc.SignedData, loc.envelope, ok, goFault, TRUE, "done", "done")
    /\ UNCHANGED <<in, out>>

(***************************************************************************)
(* The environment of the decoding steps.                                  *)
(***************************************************************************)
\* What d2i_PKCS7 may return for an envelope: NULL, or a parsed object.
D2iPkcs7(envelope) ==
    {NoPkcs7} \cup
    (IF Decodable(envelope) THEN {NotSignedData} \cup SignedDatas ELSE {})

\* d2i_PKCS7 moves the pointer it is given behind the object it decoded.
Advance(ptr, envelope) == [ptr EXCEPT !.off = @ + Consumed(envelope)]

\* PKCS7_get0_signers: a new stack holding each SignerInfo's certificate,
\* or NULL when there is no SignerInfo or the stack cannot be allocated.
Pkcs7Get0Signers(Pkcs7, ok) ==
    IF Len(Pkcs7.sinfo) = 0 \/ ~ ok
    THEN NullStack
    ELSE [i \in 1..Len(Pkcs7.sinfo) |-> Pkcs7.certs[Pkcs7.sinfo[i]]]

AllocEnvs == {"ok", "bio", "malloc"}

(***************************************************************************)
(* Pkcs7GetSigners.                                                        *)
(***************************************************************************)
\* _Exit: release the resources and return l.Status.
GetSigners_Exit(l, h, o, hs) ==
    LET h1 == IF ~ l.Wrapped THEN Free(h, l.SignedData) ELSE h
        h2 == Free(h1, l.SingleCert)
        drop == ~ l.Status /\ l.CertBuf # NULL
        h3 == IF drop THEN Free(h2, l.CertBuf) ELSE h2
        h4 == Free(h3, l.OldBuf)
    IN  /\ heap' = h4
        /\ out' = IF drop THEN [o EXCEPT !.CertStack = NULL] ELSE o
        /\ loc' = l
        /\ hist' = hs
        /\ pc' = "done"

GetSigners_Call ==
    /\ pc = "call" /\ in.op = "Pkcs7GetSigners"
    /\ IF in.badArg \/ UGt(in.P7Length, INT_MAX)
       THEN /\ pc' = "done"
            /\ UNCHANGED <<loc, heap, wrapLog, hist>>
       ELSE \E ok, goFault \in BOOLEAN :
                CallWrap(CallerPtr, in.data, ok, goFault, FALSE, "gs_decode", "done")
    /\ UNCHANGED <<in, out>>

GetSigners_Decode ==
    /\ pc = "gs_decode"
    /\ IF UGt(loc.SignedDataSize, INT_MAX)
       THEN GetSigners_Exit(loc, heap, out, [hist EXCEPT !.sizeOver = TRUE])
       ELSE \E Pkcs7 \in D2iPkcs7(loc.envelope), ok \in BOOLEAN :
              LET l1 == [loc EXCEPT !.Pkcs7 = Pkcs7,
                                    !.Temp = IF Pkcs7 = NoPkcs7
                                             THEN loc.SignedData
                                             ELSE Advance(loc.SignedData, loc.envelope)]
                  Stack == Pkcs7Get0Signers(Pkcs7, ok)
              IN  IF Pkcs7 = NoPkcs7
                  THEN GetSigners_Exit(l1, heap, out, [hist EXCEPT !.decode = "fail"])
                  ELSE IF Pkcs7.type # "signed"
                  THEN GetSigners_Exit(l1, heap, out, [hist EXCEPT !.decode = "notsigned"])
                  ELSE IF Stack = NullStack
                  THEN GetSigners_Exit(l1, heap, out,
                                       [hist EXCEPT !.decode = "signed",
                                                    !.envFail = Len(Pkcs7.sinfo) > 0])
                  ELSE /\ loc' = [l1 EXCEPT !.Stack = Stack, !.BufferSize = 1,
                                            !.OldSize = 1, !.Index = 0]
                       /\ hist' = [hist EXCEPT !.decode = "signed"]
                       /\ pc' = "gs_loop"
                       /\ UNCHANGED <<heap, out>>
    /\ UNCHANGED <<in, wrapLog>>

\* One pass through the body of a serialization loop over the stack in
\* field stk of l: the locals, the heap and the history after it, and how
\* it ended: "next" (go round again), "break" (the pop returned FALSE) or
\* "nomem" (the new accumulator could not be allocated).
LoopBody(l, h, hs, stk, log, env, ok) ==
    LET r == X509PopCertificate(l[stk], env)
        l1 == [l EXCEPT ![stk] = r.Stack, !.Status = r.Status]
        h1 == Malloc(h, TRUE, r.Cert)
        SingleCert == NewPtr(h, TRUE)
        OldSize == l.BufferSize
        OldBuf == l.CertBuf
        BufferSize == OldSize + r.CertSize + 4
        CertBuf == NewPtr(h1, ok)
        old == IF OldBuf = NULL THEN <<>> ELSE h.mem[OldBuf.id]
        h2 == Malloc(h1, ok, GrowCertBuf(old, OldSize, BufferSize, r.Cert))
    IN  IF ~ r.Status
        THEN [end |-> "break", loc |-> l1, heap |-> h,
              hist |-> [hs EXCEPT !.allocFail = @ \/ r.popped,
                                  !.lost = @ \/ r.popped]]
        ELSE IF ~ ok
        THEN [end |-> "nomem",
              loc |-> [l1 EXCEPT !.OldSize = OldSize, !.OldBuf = OldBuf,
                                 !.BufferSize = BufferSize, !.CertBuf = NULL,
                                 !.SingleCert = SingleCert],
              heap |-> h2,
              hist |-> [hs EXCEPT !.allocFail = TRUE, !.lost = TRUE]]
        ELSE [end |-> "next",
              loc |-> [l1 EXCEPT !.OldSize = OldSize, !.OldBuf = NULL,
                                 !.BufferSize = BufferSize, !.CertBuf = CertBuf,
                                 !.SingleCert = NULL,
                                 !.Index = (l.Index + 1) % 256],
              heap |-> Free(Free(h2, OldBuf), SingleCert),
              hist |-> [hs EXCEPT ![log] = Append(@, r.X509Cert)]]

\* CertBuf[0] = Index.
SetCertNumber(h, CertBuf, Index) == [h EXCEPT !.mem[CertBuf.id][1] = Index]

GetSigners_Loop ==
    /\ pc = "gs_loop"
    /\ \E env \in AllocEnvs, ok \in BOOLEAN :
         LET b == LoopBody(loc, heap, hist, "Stack", "popped", env, ok)
         IN  CASE b.end = "next" ->
                    /\ loc' = b.loc /\ heap' = b.heap /\ hist' = b.hist
                    /\ UNCHANGED <<pc, out>>
               [] b.end = "break" ->
                    /\ loc' = b.loc /\ heap' = b.heap /\ hist' = b.hist
                    /\ pc' = "gs_finish"
                    /\ UNCHANGED out
               [] b.end = "nomem" ->
                    GetSigners_Exit(b.loc, b.heap, out, b.hist)
    /\ UNCHANGED <<in, wrapLog>>

GetSigners_Finish ==
    /\ pc = "gs_finish"
    /\ IF loc.CertBuf = NULL
       THEN GetSigners_Exit(loc, heap, out, hist)
       ELSE \E ok \in BOOLEAN :
              LET h1 == SetCertNumber(heap, loc.CertBuf, loc.Index)
                  CertLength == loc.BufferSize - loc.OldSize - 4
                  TrustedCert == NewPtr(h1, ok)
                  bytes == SubSeq(h1.mem[loc.CertBuf.id], loc.OldSize + 4 + 1,
                                  loc.OldSize + 4 + CertLength)
                  o1 == [out EXCEPT !.CertLength = CertLength,
                                    !.TrustedCert = TrustedCert]
              IN  IF ~ ok
                  THEN GetSigners_Exit(loc, h1, o1,
                                       [hist EXCEPT !.allocFail = TRUE])
                  ELSE GetSigners_Exit([loc EXCEPT !.Status = TRUE],
                                       Malloc(h1, TRUE, bytes),
                                       [o1 EXCEPT !.CertStack = loc.CertBuf,
                                                  !.StackLength = loc.BufferSize],
                                       hist)
    /\ UNCHANGED <<in, wrapLog>>

(***************************************************************************)
(* Pkcs7GetCertificatesList.                                               *)
(***************************************************************************)
\* _Error: release the resources and return l.Status.  NewP7Data is the
\* field SignedData.  free of a pointer into the middle of a block is
\* undefined: the call may stop there (goFault).
GetCertificatesList_Error(l, h, o, hs, goFault) ==
    LET bad == ~ l.Wrapped /\ l.SignedData # NULL /\ l.SignedData.off # 0
        h1 == IF ~ l.Wrapped THEN Free(h, l.SignedData) ELSE h
        h2 == Free(h1, l.SingleCert)
        h3 == Free(h2, l.OldBuf)
        drop == ~ l.Status /\ l.CertBuf # NULL
        h4 == IF drop THEN Free(h3, l.CertBuf) ELSE h3
    IN  /\ goFault => bad
        /\ loc' = l
        /\ hist' = hs
        /\ IF goFault
           THEN /\ heap' = h1
                /\ out' = o
                /\ pc' = "fault"
           ELSE /\ heap' = h4
                /\ out' = IF drop
                          THEN [o EXCEPT !.SignerChainCerts = NULL,
                                         !.UnchainCerts = NULL]
                          ELSE o
                /\ pc' = "done"

GetCertificatesList_Call ==
    /\ pc = "call" /\ in.op = "Pkcs7GetCertificatesList"
    /\ IF in.badArg \/ UGt(in.P7Length, INT_MAX)
       THEN /\ pc' = "done"
            /\ UNCHANGED <<loc, out, heap, wrapLog, hist>>
       ELSE /\ out' = [out EXCEPT !.SignerChainCerts = NULL, !.ChainLength = 0,
                                  !.UnchainCerts = NULL, !.UnchainLength = 0]
            /\ \E ok, goFault \in BOOLEAN :
                 CallWrap(CallerPtr, in.data, ok, goFault, TRUE, "gcl_decode", "done")
    /\ UNCHANGED in

\* The store X509_STORE_CTX_init is given: none (its second argument is
\* NULL), so X509_STORE_CTX_get1_issuer has nowhere to look.
TrustedStore == {}

\* X509_STORE_CTX_get1_issuer: an issuer of Cert in the store, or "none".
GetIssuer(Cert) ==
    IF \E c \in TrustedStore : Subject(c) = IssuerName(Cert)
    THEN CHOOSE c \in TrustedStore : Subject(c) = IssuerName(Cert)
    ELSE "none"

\* X509_find_by_subject: the first certificate of the stack with that
\* subject name, or "none".
FindBySubject(stack, name) ==
    IF \E i \in 1..Len(stack) : Subject(stack[i]) = name
    THEN stack[CHOOSE i \in 1..Len(stack) :
                   /\ Subject(stack[i]) = name
                   /\ \A j \in 1..(i - 1) : Subject(stack[j]) # name]
    ELSE "none"

\* sk_X509_delete_ptr leaving the stack as it is.
DeletePtrKeeps(stack, c) == stack

\* sk_X509_delete_ptr.
DeletePtr(stack, c) == SelectSeq(stack, LAMBDA x : x # c)

GetCertificatesList_Decode ==
    /\ pc = "gcl_decode"
    /\ \E goFault \in BOOLEAN :
        IF UGt(loc.SignedDataSize, INT_MAX)
        THEN GetCertificatesList_Error(loc, heap, out,
                                       [hist EXCEPT !.sizeOver = TRUE], goFault)
        ELSE \E Pkcs7 \in D2iPkcs7(loc.envelope), ok, ctxOk \in BOOLEAN :
              LET l1 == [loc EXCEPT !.Pkcs7 = Pkcs7,
                                    !.SignedData =
                                        IF Pkcs7 = NoPkcs7
                                        THEN loc.SignedData
                                        ELSE Advance(loc.SignedData, loc.envelope)]
                  Signers == Pkcs7Get0Signers(Pkcs7, ok)
                  Signer == Signers[1]
              IN  IF Pkcs7 = NoPkcs7
                  THEN GetCertificatesList_Error(
                           l1, heap, out, [hist EXCEPT !.decode = "fail"], goFault)
                  ELSE IF Pkcs7.type # "signed"
                  THEN GetCertificatesList_Error(
                           l1, heap, out, [hist EXCEPT !.decode = "notsigned"], goFault)
                  ELSE IF Signers = NullStack \/ Len(Signers) # 1 \/ ~ ctxOk
                  THEN GetCertificatesList_Error(
                           l1, heap, out,
                           [hist EXCEPT !.decode = "signed",
                                        !.envFail = \/ Len(Pkcs7.sinfo) > 0 /\ ~ ok
                                                    \/ Len(Pkcs7.sinfo) = 1 /\ ~ ctxOk],
                           goFault)
                  ELSE /\ ~ goFault
                       /\ loc' = [l1 EXCEPT !.Stack = Signers,
                                            !.Signer = Signer,
                                            !.CtxChain = <<Signer>>,
                                            !.CtxUntrusted =
                                                DeletePtr(Pkcs7.certs, Signer),
                                            !.Cert = Signer]
                       /\ hist' = [hist EXCEPT !.decode = "signed"]
                       /\ pc' = "gcl_walk"
                       /\ UNCHANGED <<heap, out>>
    /\ UNCHANGED <<in, wrapLog>>

\* One pass through the loop that builds the chain from the signer.
GetCertificatesList_Walk ==
    /\ pc = "gcl_walk"
    /\ \E ok, goFault \in BOOLEAN :
         LET Issuer == FindBySubject(loc.CtxUntrusted, IssuerName(loc.Cert))
         IN  IF GetIssuer(loc.Cert) = loc.Cert \/ Issuer = "none"
             THEN /\ ~ goFault
                  /\ loc' = [loc EXCEPT !.BufferSize = 1, !.CertBuf = NULL,
                                        !.Index = 0]
                  /\ pc' = "gcl_chain"
                  /\ UNCHANGED <<heap, out, hist>>
             ELSE IF ~ ok
             THEN GetCertificatesList_Error(
                      loc, heap, out, [hist EXCEPT !.envFail = TRUE], goFault)
             ELSE /\ ~ goFault
                  /\ loc' = [loc EXCEPT !.CtxChain = Append(@, Issuer),
                                        !.CtxUntrusted = DeletePtr(@, Issuer),
                                        !.Cert = Issuer]
                  /\ UNCHANGED <<pc, heap, out, hist>>
    /\ UNCHANGED <<in, wrapLog>>

GetCertificatesList_Chain ==
    /\ pc = "gcl_chain"
    /\ \E env \in AllocEnvs, ok, goFault \in BOOLEAN :
         LET b == LoopBody(loc, heap, hist, "CtxChain", "popped", env, ok)
         IN  CASE b.end = "next" ->
                    /\ ~ goFault
                    /\ loc' = b.loc /\ heap' = b.heap /\ hist' = b.hist
                    /\ UNCHANGED <<pc, out>>
               [] b.end = "break" ->
                    /\ ~ goFault
                    /\ loc' = [b.loc EXCEPT !.BufferSize = 1, !.CertBuf = NULL,
                                            !.Index = 0]
                    /\ heap' = IF loc.CertBuf = NULL THEN b.heap
                               ELSE SetCertNumber(b.heap, loc.CertBuf, loc.Index)
                    /\ out' = IF loc.CertBuf = NULL THEN out
                              ELSE [out EXCEPT !.SignerChainCerts = loc.CertBuf,
                                               !.ChainLength = loc.BufferSize]
                    /\ hist' = b.hist
                    /\ pc' = "gcl_untrusted"
               [] b.end = "nomem" ->
                    GetCertificatesList_Error([b.loc EXCEPT !.Status = FALSE],
                                              b.heap, out, b.hist, goFault)
    /\ UNCHANGED <<in, wrapLog>>

GetCertificatesList_Untrusted ==
    /\ pc = "gcl_untrusted"
    /\ \E env \in AllocEnvs, ok, goFault \in BOOLEAN :
         LET b == LoopBody(loc, heap, hist, "CtxUntrusted", "popped2", env, ok)
         IN  CASE b.end = "next" ->
                    /\ ~ goFault
                    /\ loc' = b.loc /\ heap' = b.heap /\ hist' = b.hist
                    /\ UNCHANGED <<pc, out>>
               [] b.end = "break" ->
                    GetCertificatesList_Error(
                        [b.loc EXCEPT !.Status = TRUE],
                        IF loc.CertBuf = NULL THEN b.heap
                        ELSE SetCertNumber(b.heap, loc.CertBuf, loc.Index),
                        IF loc.CertBuf = NULL THEN out
                        ELSE [out EXCEPT !.UnchainCerts = loc.CertBuf,
                                         !.UnchainLength = loc.BufferSize],
                        b.hist, goFault)
               [] b.end = "nomem" ->
                    GetCertificatesList_Error([b.loc EXCEPT !.Status = FALSE],
                                              b.heap, out, b.hist, goFault)
    /\ UNCHANGED <<in, wrapLog>>

(***************************************************************************)
(* Pkcs7Verify.                                                            *)
(***************************************************************************)
\* The registrations, in the order the code makes them.
Digests == <<"md5", "sha1", "sha256", "sha384", "sha512", "sha1WithRSA">>

\* _Exit: release the resources and return l.Status.
Verify_Exit(l, h, hs) ==
    /\ heap' = IF ~ l.Wrapped THEN Free(h, l.SignedData) ELSE h
    /\ loc' = l
    /\ hist' = hs
    /\ pc' = "done"

\* The entry check and the registrations: the first n of them succeed.
Verify_Call ==
    /\ pc = "call" /\ in.op = "Pkcs7Verify"
    /\ IF in.badArg \/ UGt(in.P7Length, INT_MAX)
       THEN /\ pc' = "done"
            /\ UNCHANGED hist
       ELSE \E n \in 0..Len(Digests) :
              /\ hist' = [hist EXCEPT !.trace = SubSeq(Digests, 1, n)]
              /\ pc' = IF n = Len(Digests) THEN "v_wrap" ELSE "done"
    /\ UNCHANGED <<in, loc, out, heap, wrapLog>>

Verify_Wrap ==
    /\ pc = "v_wrap"
    /\ \E ok, goFault \in BOOLEAN :
         CallWrap(CallerPtr, in.data, ok, goFault, FALSE, "v_decode", "done")
    /\ UNCHANGED <<in, out>>

\* The steps with PKCS7_verify called before the purpose is overridden.
VerifyStepsPurposeLate ==
    <<"d2i_X509", "X509_STORE_new", "X509_STORE_add_cert", "BIO_new_mem_buf",
      "PARTIAL_CHAIN|NO_CHECK_TIME", "PKCS7_verify", "PURPOSE_ANY">>

\* The steps from the decoding to PKCS7_verify, in the order of the code;
\* each but the two that set the policy can fail.
VerifySteps ==
    <<"d2i_X509", "X509_STORE_new", "X509_STORE_add_cert", "BIO_new_mem_buf",
      "PARTIAL_CHAIN|NO_CHECK_TIME", "PURPOSE_ANY", "PKCS7_verify">>

VerifyFailable == {1, 2, 3, 4, 7}

Verify_Decode ==
    /\ pc = "v_decode"
    /\ IF UGt(loc.SignedDataSize, INT_MAX)
       THEN Verify_Exit(loc, heap, [hist EXCEPT !.sizeOver = TRUE])
       ELSE \E Pkcs7 \in D2iPkcs7(loc.envelope),
               stop \in VerifyFailable \cup {Len(VerifySteps) + 1} :
              LET l1 == [loc EXCEPT !.Pkcs7 = Pkcs7,
                                    !.Temp = IF Pkcs7 = NoPkcs7
                                             THEN loc.SignedData
                                             ELSE Advance(loc.SignedData, loc.envelope)]
                  \* the steps that succeeded, then the one that failed
                  done == SubSeq(VerifySteps, 1, Min(stop, Len(VerifySteps)))
              IN  /\ Pkcs7.type = "signed" =>
                         Pkcs7.certs = <<"Leaf">> /\ Pkcs7.sinfo = <<1>>
                  /\ IF Pkcs7 = NoPkcs7
                     THEN Verify_Exit(l1, heap, [hist EXCEPT !.decode = "fail"])
                     ELSE IF Pkcs7.type # "signed"
                     THEN Verify_Exit(l1, heap, [hist EXCEPT !.decode = "notsigned"])
                     ELSE Verify_Exit(
                              [l1 EXCEPT !.Status = (stop = Len(VerifySteps) + 1)],
                              heap,
                              [hist EXCEPT !.decode = "signed",
                                           !.trace = @ \o <<"signed">> \o done,
                                           !.verified = stop >= Len(VerifySteps),
                                           !.failedAt = stop])
    /\ UNCHANGED <<in, out, wrapLog>>

(***************************************************************************)
(* Pkcs7GetSignature.                                                      *)
(***************************************************************************)
\* What d2i_PKCS7 can return as far as Pkcs7GetSignature reads it: up to two
\* SignerInfos, the first with or without an encrypted digest.
SignatureDatas ==
    {[type |-> "signed", certs |-> SubSeq(<<"Leaf", "Intermediate">>, 1, n),
      sinfo |-> [i \in 1..n |-> i], enc |-> e]
     : n \in 0..2, e \in {<<>>, <<170>>, <<170, 187>>}}

GetSignature_Exit(l, h, o, hs) ==
    /\ heap' = IF ~ l.Wrapped THEN Free(h, l.SignedData) ELSE h
    /\ loc' = l
    /\ out' = o
    /\ hist' = hs
    /\ pc' = "done"

GetSignature_Call ==
    /\ pc = "call" /\ in.op = "Pkcs7GetSignature"
    /\ IF \/ in.badArg
          \/ UGt(in.P7Length, INT_MAX)
          \/ (in.Signature = "null" /\ in.SignatureLength = "null")
       THEN /\ pc' = "done"
            /\ UNCHANGED <<loc, heap, wrapLog, hist>>
       ELSE \E ok, goFault \in BOOLEAN :
                CallWrap(CallerPtr, in.data, ok, goFault, FALSE, "sig_decode", "done")
    /\ UNCHANGED <<in, out>>

\* Writing through a NULL SignatureLength is undefined: the call may stop
\* there (goFault) or go on.
GetSignature_Decode ==
    /\ pc = "sig_decode"
    /\ IF UGt(loc.SignedDataSize, INT_MAX)
       THEN GetSignature_Exit(loc, heap, out, [hist EXCEPT !.sizeOver = TRUE])
       ELSE \E Pkcs7 \in {NoPkcs7} \cup
                         (IF Decodable(loc.envelope)
                          THEN {NotSignedData} \cup SignatureDatas ELSE {}),
               goFault \in BOOLEAN :
              LET l1 == [loc EXCEPT !.Pkcs7 = Pkcs7,
                                    !.Temp = IF Pkcs7 = NoPkcs7
                                             THEN loc.SignedData
                                             ELSE Advance(loc.SignedData, loc.envelope)]
                  EncDigest == Pkcs7.enc
                  nullWrite == in.SignatureLength = "null"
                  o1 == IF nullWrite THEN out
                        ELSE [out EXCEPT !.SignatureLength = Len(EncDigest)]
              IN  IF Pkcs7 = NoPkcs7
                  THEN /\ ~ goFault
                       /\ GetSignature_Exit(l1, heap, out,
                                            [hist EXCEPT !.decode = "fail"])
                  ELSE IF Pkcs7.type # "signed"
                  THEN /\ ~ goFault
                       /\ GetSignature_Exit(l1, heap, out,
                                            [hist EXCEPT !.decode = "notsigned"])
                  ELSE IF Len(Pkcs7.sinfo) # 1 \/ EncDigest = <<>>
                  THEN /\ ~ goFault
                       /\ GetSignature_Exit(l1, heap, out,
                                            [hist EXCEPT !.decode = "signed"])
                  ELSE IF goFault
                  THEN /\ nullWrite
                       /\ pc' = "fault"
                       /\ loc' = l1
                       /\ hist' = [hist EXCEPT !.decode = "signed",
                                               !.nullWrite = TRUE]
                       /\ UNCHANGED <<heap, out>>
                  ELSE GetSignature_Exit(
                           [l1 EXCEPT !.Status = (in.Signature = "buf")],
                           heap,
                           IF in.Signature = "buf"
                           THEN [o1 EXCEPT !.Signature = EncDigest]
                           ELSE o1,
                           [hist EXCEPT !.decode = "signed",
                                        !.nullWrite = nullWrite])
    /\ UNCHANGED <<in, wrapLog>>

Next ==
    \/ Wrap_First
    \/ Wrap_Again
    \/ GetSigners_Call
    \/ GetSigners_Decode
    \/ GetSigners_Loop
    \/ GetSigners_Finish
    \/ GetCertificatesList_Call
    \/ GetCertificatesList_Decode
    \/ GetCertificatesList_Walk
    \/ GetCertificatesList_Chain
    \/ GetCertificatesList_Untrusted
    \/ Verify_Call
    \/ Verify_Wrap
    \/ Verify_Decode
    \/ GetSignature_Call
    \/ GetSignature_Decode

Spec == Init /\ [][Next]_vars

\* The calls of Pkcs7GetCertificatesList alone.  A loop, once entered, runs
\* on: no pass through it waits for anything but the processor.
GetCertificatesList_Init == Init /\ in.op = "Pkcs7GetCertificatesList"

GetCertificatesList_Next ==
    \/ GetCertificatesList_Call
    \/ GetCertificatesList_Decode
    \/ GetCertificatesList_Walk
    \/ GetCertificatesList_Chain
    \/ GetCertificatesList_Untrusted

LiveSpec ==
    /\ GetCertificatesList_Init
    /\ [][GetCertificatesList_Next]_vars
    /\ WF_vars(GetCertificatesList_Walk)
    /\ WF_vars(GetCertificatesList_Chain)
    /\ WF_vars(GetCertificatesList_Untrusted)


(***************************************************************************)
(* Reading a serialized certificate list back.                             *)
(***************************************************************************)
RECURSIVE ReadRecords(_, _, _)
\* The n records that start at bytes[pos]: ok when they end exactly at the
\* end of bytes; recs, their contents in order.
ReadRecords(bytes, pos, n) ==
    IF n = 0
    THEN [ok |-> pos = Len(bytes) + 1, recs |-> <<>>]
    ELSE IF pos + 3 > Len(bytes)
    THEN [ok |-> FALSE, recs |-> <<>>]
    ELSE LET len == bytes[pos] + 256 * bytes[pos + 1] + 65536 * bytes[pos + 2]
                    + 16777216 * bytes[pos + 3]
         IN  IF len < 0 \/ pos + 3 + len > Len(bytes)
             THEN [ok |-> FALSE, recs |-> <<>>]
             ELSE LET rest == ReadRecords(bytes, pos + 4 + len, n - 1)
                  IN  [ok |-> rest.ok,
                       recs |-> <<SubSeq(bytes, pos + 4, pos + 3 + len)>>
                                \o rest.recs]

RECURSIVE RecordBytes(_)
\* The sum over a sequence of certificates of 4 + the DER length.
RecordBytes(cs) ==
    IF cs = <<>> THEN 0 ELSE 4 + Len(DER(Head(cs))) + RecordBytes(Tail(cs))

\* The block an OUT pointer points to.
Block(ptr) == heap.mem[ptr.id]

\* Whether the list at ptr, reported length long, holds exactly the
\* certificates cs in that order.
ListHolds(ptr, length, cs) ==
    /\ ptr.kind = "heap" /\ ptr.off = 0
    /\ Block(ptr)[1] = Len(cs)
    /\ ReadRecords(Block(ptr), 2, Len(cs)).ok
    /\ ReadRecords(Block(ptr), 2, Len(cs)).recs = [i \in 1..Len(cs) |-> DER(cs[i])]
    /\ length = Len(Block(ptr))
    /\ length = 1 + RecordBytes(cs)

Returned == pc = "done"

Facades == {"Pkcs7GetSigners", "Pkcs7GetCertificatesList", "Pkcs7Verify",
            "Pkcs7GetSignature"}

(***************************************************************************)
(* C1: WrapPkcs7Data, and every operation that calls it, fails for every   *)
(* input shorter than 17 bytes, and the detection never reads a byte at an *)
(* index >= P7Length.                                                      *)
(***************************************************************************)
C1_ShortInputFails ==
    /\ ~ hist.oob
    /\ \A i \in 1..Len(wrapLog) :
           ULt(wrapLog[i].data.len, U(17)) => ~ wrapLog[i].r.ret
    /\ (Returned /\ in.op \in Facades /\ ULt(in.P7Length, U(17))) => ~ loc.Status

(***************************************************************************)
(* C2: Pkcs7GetCertificatesList and Pkcs7GetSignature return FALSE when    *)
(* the decoded SignedData has 0 or at least 2 signers, and TRUE only when  *)
(* it has exactly 1.                                                       *)
(***************************************************************************)
C2_SignerCountGate ==
    (Returned /\ in.op \in {"Pkcs7GetCertificatesList", "Pkcs7GetSignature"}) =>
        /\ (hist.decode = "signed" /\ Len(loc.Pkcs7.sinfo) # 1) => ~ loc.Status
        /\ (hist.decode = "signed" /\ loc.Status) => Len(loc.Pkcs7.sinfo) = 1

(***************************************************************************)
(* C3: each of the four operations returns FALSE when P7Length exceeds     *)
(* INT_MAX, when the normalized envelope length exceeds INT_MAX, when the  *)
(* DER decoding fails, or when the content type is not signed-data.        *)
(***************************************************************************)
C3_RejectsBadEnvelope ==
    (/\ Returned /\ in.op \in Facades
     /\ \/ UGt(in.P7Length, INT_MAX)
        \/ hist.sizeOver
        \/ hist.decode \in {"fail", "notsigned"})
    => ~ loc.Status

(***************************************************************************)
(* C4: after an allocation failure while a certificate stack is            *)
(* serialized, Pkcs7GetSigners and Pkcs7GetCertificatesList return FALSE;  *)
(* they never return TRUE with a list that omits certificates that were    *)
(* still on the stack.                                                     *)
(***************************************************************************)
C4_AllocFailureFails ==
    (Returned /\ in.op \in {"Pkcs7GetSigners", "Pkcs7GetCertificatesList"}
     /\ loc.Status)
    => (~ hist.allocFail /\ ~ hist.lost)

(***************************************************************************)
(* C5: when Pkcs7GetSigners or Pkcs7GetCertificatesList returns FALSE,     *)
(* every output buffer pointer is NULL or holds its value at entry.        *)
(***************************************************************************)
C5_NoPartialOutput ==
    (Returned /\ in.op \in {"Pkcs7GetSigners", "Pkcs7GetCertificatesList"}
     /\ ~ loc.Status)
    => \A f \in {"CertStack", "TrustedCert", "SignerChainCerts", "UnchainCerts"} :
           out[f] \in {NULL, ENTRY}

(***************************************************************************)
(* C6: in each of the four operations, once WrapPkcs7Data succeeded, a     *)
(* synthesized envelope is released exactly once and through the address   *)
(* WrapPkcs7Data returned, and a caller's buffer detected as wrapped is    *)
(* never released.                                                         *)
(***************************************************************************)
\* The pointers passed to free that point into the same block as p.
FreesOf(p) ==
    SelectSeq(heap.freed, LAMBDA q : q.kind = p.kind /\ q.id = p.id)

C6_EnvelopeReleasedOnce ==
    (Returned /\ in.op \in Facades /\ Len(wrapLog) = 1 /\ wrapLog[1].r.ret)
    => IF wrapLog[1].r.WrapFlag
       THEN FreesOf(CallerPtr) = <<>>
       ELSE FreesOf(wrapLog[1].r.WrapData) = <<wrapLog[1].r.WrapData>>

(***************************************************************************)
(* C7: for a single-signer SignedData whose embedded certificates are      *)
(* Leaf (the signer), Intermediate and the self-signed Root, with no       *)
(* allocation failure, Pkcs7GetCertificatesList returns TRUE with an       *)
(* empty unchained output and a chain list that holds the three            *)
(* certificates.  C7_ChainLeafFirst reads the records as Leaf,             *)
(* Intermediate, Root; C7_ChainRootFirst reads them as Root, Intermediate, *)
(* Leaf, the order in which X509PopCertificate takes them off the chain    *)
(* stack.                                                                  *)
(***************************************************************************)
LeafChainCase ==
    /\ Returned /\ in.op = "Pkcs7GetCertificatesList"
    /\ hist.decode = "signed" /\ ~ hist.allocFail /\ ~ hist.envFail
    /\ Len(loc.Pkcs7.certs) = 3
    /\ {loc.Pkcs7.certs[i] : i \in 1..3} = {"Leaf", "Intermediate", "Root"}
    /\ Len(loc.Pkcs7.sinfo) = 1
    /\ loc.Pkcs7.certs[loc.Pkcs7.sinfo[1]] = "Leaf"

C7_ChainLeafFirst ==
    LeafChainCase =>
        /\ loc.Status
        /\ ListHolds(out.SignerChainCerts, out.ChainLength,
                     <<"Leaf", "Intermediate", "Root">>)
        /\ out.UnchainCerts = NULL /\ out.UnchainLength = 0

C7_ChainRootFirst ==
    LeafChainCase =>
        /\ loc.Status
        /\ ListHolds(out.SignerChainCerts, out.ChainLength,
                     <<"Root", "Intermediate", "Leaf">>)
        /\ out.UnchainCerts = NULL /\ out.UnchainLength = 0

C7_Witness == LeafChainCase /\ ~ loc.Wrapped

(***************************************************************************)
(* C8: for an input of length L not detected as wrapped, a successful      *)
(* WrapPkcs7Data returns L+19 bytes: 30 82, L+15 in two bytes, 06 09, the  *)
(* OID, A0 82, L in two bytes, then the input; the two length fields equal *)
(* L+15 and L exactly, so an input too long for them is rejected.          *)
(***************************************************************************)
WrapLayoutExact(e) ==
    LET L == e.data.len
        W == e.r.content
    IN  /\ e.r.WrapDataSize = UAdd(L, 19)
        /\ W.len = UAdd(L, 19)
        /\ ByteAt(W, 0) = 48 /\ ByteAt(W, 1) = 130
        /\ U(ByteAt(W, 2) * 256 + ByteAt(W, 3)) = UAdd(L, 15)
        /\ ByteAt(W, 4) = 6 /\ ByteAt(W, 5) = 9
        /\ \A j \in 1..9 : ByteAt(W, 5 + j) = mOidValue[j]
        /\ ByteAt(W, 15) = 160 /\ ByteAt(W, 16) = 130
        /\ U(ByteAt(W, 17) * 256 + ByteAt(W, 18)) = L
        /\ \A j \in 0..39 : InBounds(e.data, j) => ByteAt(W, 19 + j) = ByteAt(e.data, j)

C8_ExactLengthFields ==
    \A i \in 1..Len(wrapLog) :
        (wrapLog[i].r.ret /\ ~ wrapLog[i].r.WrapFlag) => WrapLayoutExact(wrapLog[i])

(***************************************************************************)
(* C9: WrapPkcs7Data applied to the buffer it produced for a bare input    *)
(* reports WrapFlag TRUE and returns that buffer itself: same pointer,     *)
(* same size, no allocation, no second header.  Any input detected as      *)
(* wrapped is returned as an alias with WrapDataSize = P7Length.           *)
(***************************************************************************)
C9_RewrapIsAlias ==
    /\ \A i \in 1..Len(wrapLog) :
           wrapLog[i].r.WrapFlag =>
               /\ wrapLog[i].r.ret
               /\ wrapLog[i].r.WrapData = wrapLog[i].P7Data
               /\ wrapLog[i].r.WrapDataSize = wrapLog[i].data.len
               /\ wrapLog[i].r.content = wrapLog[i].data
               /\ ~ wrapLog[i].r.malloc
    /\ (in.op = "WrapPkcs7Data" /\ pc \in {"done", "fault"}
        /\ Len(wrapLog) >= 1 /\ wrapLog[1].r.ret /\ ~ wrapLog[1].r.WrapFlag)
       => /\ pc = "done"
          /\ Len(wrapLog) = 2
          /\ wrapLog[2].r.WrapFlag
          /\ wrapLog[2].r.WrapData = wrapLog[1].r.WrapData
          /\ wrapLog[2].r.WrapDataSize = wrapLog[1].r.WrapDataSize
          /\ wrapLog[2].r.content = wrapLog[1].r.content
          /\ Len(heap.mem) = 1

C9_Witness ==
    /\ in.op = "WrapPkcs7Data" /\ pc = "done" /\ Len(wrapLog) = 2
    /\ ~ wrapLog[1].r.WrapFlag /\ wrapLog[2].r.WrapFlag
    /\ UGt(in.P7Length, U(65520))

(***************************************************************************)
(* C10: a stack of N certificates (1 <= N <= 255) serialized without       *)
(* allocation failure by Pkcs7GetSigners or Pkcs7GetCertificatesList       *)
(* gives a buffer whose first byte is N, followed by exactly N records of  *)
(* a 4-byte length and that many DER bytes, in the order the certificates  *)
(* were popped; the reported length is 1 plus the sum of 4 + record        *)
(* length, with nothing behind the last record.                            *)
(***************************************************************************)
C10_SerializedListExact ==
    (Returned /\ ~ hist.allocFail) =>
        /\ (in.op = "Pkcs7GetSigners" /\ hist.popped # <<>>) =>
               /\ loc.Status
               /\ ListHolds(out.CertStack, out.StackLength, hist.popped)
        /\ (in.op = "Pkcs7GetCertificatesList" /\ hist.popped # <<>>) =>
               ListHolds(out.SignerChainCerts, out.ChainLength, hist.popped)
        /\ (in.op = "Pkcs7GetCertificatesList" /\ hist.popped2 # <<>>) =>
               ListHolds(out.UnchainCerts, out.UnchainLength, hist.popped2)

C10_Witness ==
    /\ Returned /\ ~ hist.allocFail
    /\ in.op = "Pkcs7GetCertificatesList"
    /\ Len(hist.popped) = 2 /\ Len(hist.popped2) = 1

(***************************************************************************)
(* C11: whenever Pkcs7GetSigners returns TRUE, TrustedCert points to a     *)
(* block of its own whose length and bytes are those of the last           *)
(* certificate popped from the signer stack, which is the final record of  *)
(* the list returned in CertStack.                                         *)
(***************************************************************************)
TrustedCertIsLastRecord ==
    LET n == Len(hist.popped)
        rd == ReadRecords(Block(out.CertStack), 2, n)
    IN  /\ n >= 1
        /\ out.TrustedCert.kind = "heap" /\ out.TrustedCert.off = 0
        /\ out.CertStack.kind = "heap"
        /\ out.TrustedCert.id # out.CertStack.id
        /\ Block(out.CertStack)[1] = n
        /\ rd.ok
        /\ Block(out.TrustedCert) = rd.recs[n]
        /\ Block(out.TrustedCert) = DER(hist.popped[n])
        /\ out.CertLength = Len(rd.recs[n])

C11_TrustedCertIsLastPopped ==
    (Returned /\ in.op = "Pkcs7GetSigners" /\ loc.Status)
    => TrustedCertIsLastRecord

(***************************************************************************)
(* C12: in Pkcs7Verify, whenever PKCS7_verify has been called, what was    *)
(* done before it is, in this order: the five digests and the              *)
(* sha1WithRSAEncryption alias registered, the envelope decoded as         *)
(* signed-data, the caller's root decoded and added to a new store (and    *)
(* nothing else added), the partial-chain and no-time-check flags set,     *)
(* the purpose overridden to any.  Pkcs7Verify returns TRUE only when      *)
(* PKCS7_verify was called and reported success.                           *)
(***************************************************************************)
BeforeVerify ==
    <<"md5", "sha1", "sha256", "sha384", "sha512", "sha1WithRSA", "signed",
      "d2i_X509", "X509_STORE_new", "X509_STORE_add_cert", "BIO_new_mem_buf",
      "PARTIAL_CHAIN|NO_CHECK_TIME", "PURPOSE_ANY">>

C12_VerifyAfterSetup ==
    in.op = "Pkcs7Verify" =>
        /\ \A i \in 1..Len(hist.trace) :
               hist.trace[i] = "PKCS7_verify" =>
                   SubSeq(hist.trace, 1, i - 1) = BeforeVerify
        /\ hist.verified <=> (\E i \in 1..Len(hist.trace) :
                                  hist.trace[i] = "PKCS7_verify")
        /\ (Returned /\ loc.Status) =>
               /\ hist.verified
               /\ hist.trace = BeforeVerify \o <<"PKCS7_verify">>
               /\ hist.failedAt \notin DOMAIN VerifySteps

C12_Witness ==
    /\ Returned /\ in.op = "Pkcs7Verify" /\ loc.Status
    /\ hist.verified /\ loc.Wrapped

(***************************************************************************)
(* C13: Pkcs7GetSignature returns FALSE, and writes through no NULL        *)
(* pointer, when P7Data, Signature or SignatureLength is NULL; when it     *)
(* returns TRUE, *SignatureLength is the length of the single signer's     *)
(* encrypted digest and the buffer at *Signature holds exactly its bytes.  *)
(***************************************************************************)
SignatureArgIsNull ==
    in.badArg \/ in.Signature = "null" \/ in.SignatureLength = "null"

C13_SignatureNullArgs ==
    in.op = "Pkcs7GetSignature" =>
        /\ ~ hist.nullWrite
        /\ (Returned /\ SignatureArgIsNull) => ~ loc.Status
        /\ (Returned /\ loc.Status) =>
               /\ Len(loc.Pkcs7.sinfo) = 1
               /\ out.SignatureLength = Len(loc.Pkcs7.enc)
               /\ out.Signature = loc.Pkcs7.enc

(***************************************************************************)
(* C14: in Pkcs7GetCertificatesList the walk that builds the chain and the *)
(* two loops that serialize the chain and the unchained certificates end,  *)
(* whatever the embedded certificates are (issuer cycles, subject names    *)
(* held twice, no self-signed certificate): a pass of the walk that goes   *)
(* round again has moved one certificate from the untrusted pool to the    *)
(* chain, a pass of a serialization loop that goes round again has taken   *)
(* one certificate off its stack, and the call leaves the loops.           *)
(***************************************************************************)
InLoops == pc \in {"gcl_walk", "gcl_chain", "gcl_untrusted"}

WalkShrinksPool ==
    (pc = "gcl_walk" /\ pc' = "gcl_walk") =>
        /\ Len(loc'.CtxUntrusted) = Len(loc.CtxUntrusted) - 1
        /\ Len(loc'.CtxChain) = Len(loc.CtxChain) + 1

DrainShrinksStack ==
    /\ (pc = "gcl_chain" /\ pc' = "gcl_chain") =>
           Len(loc'.CtxChain) = Len(loc.CtxChain) - 1
    /\ (pc = "gcl_untrusted" /\ pc' = "gcl_untrusted") =>
           Len(loc'.CtxUntrusted) = Len(loc.CtxUntrusted) - 1

C14_LoopsTerminate ==
    /\ [][WalkShrinksPool /\ DrainShrinksStack]_vars
    /\ InLoops ~> (pc \in {"done", "fault"})

\* The signer and another certificate issue each other, no certificate is
\* self-signed, and the walk went through both.
C14_Witness ==
    /\ Returned /\ in.op = "Pkcs7GetCertificatesList"
    /\ loc.Signer = "Stray"
    /\ \A i \in 1..Len(loc.Pkcs7.certs) : loc.Pkcs7.certs[i] # "Root"
    /\ hist.popped = <<"Cross", "Stray">>

=============================================================================
